---- MODULE Spec2Model ----
(***************************************************************************)
(* Training orchestration of the Gaussian-mixture variational autoencoder  *)
(* (GaussianMixtureVariationalAutoencoder.train): log directories on disk, *)
(* checkpoints, early stopping, the best-model snapshot, staging in a       *)
(* temporary log directory, the NaN abort and process termination.          *)
(*                                                                          *)
(* A log directory is a record: the checkpoint files in it (files), the    *)
(* epoch named by its `checkpoint` state file (state, 0 when there is       *)
(* none), the persisted validation learning curve (curve, the validation    *)
(* summaries), and the checkpoints in its best/ and early_stopping/         *)
(* subdirectories.  A checkpoint records the epoch index in its file name   *)
(* (model.ckpt-<epoch>) and the global step stored with the parameters.     *)
(*                                                                          *)
(* Also modelled: evaluate (the check of output_versions, the not-trained  *)
(* return, the evaluation/ summary subdirectory of a checkpoint variant),   *)
(* the name property and logDirectory, the warm-up weight and the           *)
(* validation learning curves kept in memory during a train call.           *)
(***************************************************************************)
EXTENDS Integers, Sequences, FiniteSets, TLC

\* ------------------------------------------------------------------ bounds
MaxEpochs == 3
MaxELBO == 3
MaxExamples == 2
ManyExamples == 11
MaxVersions == 4
EvaluateEpochs == 1
MaxSize == 2
MaxWarmUp == 2
MaxMetric == 1
CurveEpochs == 1
\* self.early_stopping_rounds is an instance attribute (10 after
\* construction); the model lets it range over 1..MaxRounds to keep the
\* runs that reach it short.
MaxRounds == 2
MaxKL == 3
LabelEpochs == 2

\* --------------------------------------------------------- program constants
max_to_keep == 1
NegInf == 0
OutputPoints == 11
\* The evaluation/ subdirectory of a directory: absent, or created by the
\* summary writer and still without a summary; otherwise the global_step of
\* the summary in it.
NoEvaluation == 0
EmptyEvaluation == -1

VARIABLES
    cfg,        \* model and data configuration, fixed after construction
    permanent,  \* the permanent log directory of the run
    temporary,  \* the log directory of the run under temporary_log_directory
    saver,      \* self.saver: the checkpoints it recorded (last_checkpoints)
    m,          \* the frame of the train call: position and local variables
    h           \* history of the current call, used only to state properties

vars == <<cfg, permanent, temporary, saver, m, h>>

Values == 1..MaxELBO

Max(S) == CHOOSE x \in S : \A y \in S : y <= x

SeqMax(s) == Max({s[k] : k \in 1..Len(s)})

\* ------------------------------------------------------------ directories
\* A directory of checkpoints only (best/, early_stopping/).
NoSnapshot == [files |-> {}, state |-> 0, evaluation |-> NoEvaluation]

NoDirectory ==
    [exists |-> FALSE, files |-> {}, state |-> 0, curve |-> <<>>,
     best |-> NoSnapshot, early_stopping |-> NoSnapshot,
     evaluation |-> NoEvaluation]

\* tf.train.get_checkpoint_state(directory): the epoch index parsed from
\* model_checkpoint_path, 0 when there is no checkpoint state.
get_checkpoint_state(d) == d.state

\* The checkpoint files the state of d points to (none when they are gone).
CheckpointFiles(d) == {c \in d.files : c.epoch = d.state}

\* models.auxiliary.clearLogDirectory
clearLogDirectory(d) == NoDirectory

\* models.auxiliary.copyModelDirectory(checkpoint, destination): copies the
\* files of the checkpoint and the state file naming it into the
\* destination directory; without a checkpoint there is nothing to copy.
copyModelDirectory(d, destination) ==
    IF get_checkpoint_state(d) = 0 THEN destination
    ELSE [files |-> {c \in destination.files : c.epoch # d.state}
                      \cup CheckpointFiles(d),
          state |-> d.state,
          evaluation |-> destination.evaluation]

\* models.auxiliary.removeOldCheckpoints(directory): keeps the files of the
\* latest checkpoint of the directory only.
removeOldCheckpoints(d) ==
    IF get_checkpoint_state(d) = 0 THEN d
    ELSE [d EXCEPT !.files = {c \in @ : c.epoch = d.state}]

\* A fraction n / d (a warm-up weight, an average over batches).
Weight(n, d) == [n |-> n, d |-> d]

\* ------------------------------------------------------ labels and passes
\* clf_weight and kl_weight (defaults of the constructor)
clf_weight_value == 1
kl_weight == 1

\* line 1773: the entropy written over the labeled examples
MaskedOut == -1000000

Min(a, b) == IF a < b THEN a ELSE b

RECURSIVE SeqSum(_)
SeqSum(s) == IF Len(s) = 0 THEN 0 ELSE s[1] + SeqSum(Tail(s))

Identity(M) == [k \in 1..M |-> k]

IsPermutation(p, M) ==
    Len(p) = M /\ \A k \in 1..M : \E j \in 1..M : p[j] = k

\* A row of an array of a data set: the example it belongs to.
Row(set, example) == [set |-> set, example |-> example]

\* lines 1374-1380: mask_train is 1 for the first number_of_labeled_examples
\* examples of a fixed permutation (RandomState(seed=42)), 0 elsewhere.
InitialMask ==
    [k \in 1..cfg.M_train |->
        IF \E j \in 1..Min(cfg.number_of_labeled_examples, cfg.M_train) :
               cfg.permutation[j] = k
        THEN 1 ELSE 0]

\* numpy.argmax: the first index of the largest entry.
argmax(a) ==
    CHOOSE k \in DOMAIN a :
        /\ \A j \in DOMAIN a : a[j] <= a[k]
        /\ \A j \in DOMAIN a : j < k => a[j] < a[k]

\* A variant of max_entropy_ind (the labeled examples are not overwritten),
\* for sensitivity checks.
max_entropy_indMutant(q_y_entropies, mask_train) == argmax(q_y_entropies)

\* lines 1773-1777: the index of the largest entropy, the entropies of the
\* labeled examples being overwritten first.
max_entropy_ind(q_y_entropies, mask_train) ==
    argmax([k \in DOMAIN q_y_entropies |->
               IF mask_train[k] = 1 THEN MaskedOut ELSE q_y_entropies[k]])

\* line 1778: mask_train[max_entropy_ind] = 1
Acquired(q_y_entropies, mask_train) ==
    [mask_train EXCEPT ![max_entropy_ind(q_y_entropies, mask_train)] = 1]

\* range(0, M, batch_size): the number of batches of a pass.
NumberOfBatches(M, batch_size) == (M + batch_size - 1) \div batch_size

\* lines 1744-1750, 1988-1994, 2587-2590: a sum over the batches of a pass
\* divided by M / batch_size (true division), as a fraction.
Averaged(total, M, batch_size) == Weight(total * batch_size, M)

\* What the monitoring pass over the training set yields: the entropies
\* of q(y|x) per example and the lower bound per batch.
NoPass ==
    [q_y_entropies |-> [k \in 1..cfg.M_train |-> 0],
     ELBO_i |-> [b \in 1..NumberOfBatches(cfg.M_train, cfg.batch_size) |-> 0]]

\* What a batch is fed with and what the graph makes of it before the
\* loss, in tenths of a nat; p_y_entropy in nats,
\* proportion_of_free_KL_nats in tenths.
Feeds ==
    [ENRE : 0..MaxMetric, KL_z : 0..MaxMetric,
     KL_y : {4 * k : k \in 0..MaxKL}, p_y_entropy : 1..MaxSize,
     warm_up_weight : 0..1, clf_mask : [1..1 -> 0..1],
     CLF_ERROR : 0..MaxMetric]

\* line 869
KL_y_threshhold(p_y_entropy) == cfg.proportion_of_free_KL_nats * p_y_entropy

\* A variant of KL_y_modified (the excess above the threshold), for
\* sensitivity checks.
KL_y_modifiedMutant(KL_y, threshhold) ==
    IF cfg.proportion_of_free_KL_nats # 0
    THEN IF KL_y > threshhold THEN KL_y - threshhold ELSE 0
    ELSE KL_y

\* lines 1048-1055
KL_y_modified(KL_y, threshhold) ==
    IF cfg.proportion_of_free_KL_nats # 0
    THEN IF KL_y > threshhold THEN KL_y ELSE threshhold
    ELSE KL_y

\* lines 1023-1032: the weight of the classification error in total_loss.
alpha(clf_mask) ==
    LET N_l == SeqSum(clf_mask)
    IN IF N_l > 0 THEN clf_weight_value * (2 + 2 * N_l) ELSE 0

\* lines 1057-1078: the monitored lower bound and the training objective
\* of a batch.
loss(feed) ==
    LET threshhold == KL_y_threshhold(feed.p_y_entropy)
        modified == KL_y_modified(feed.KL_y, threshhold)
        KL == feed.KL_z + feed.KL_y
        ELBO_weighted ==
            feed.ENRE - feed.warm_up_weight * kl_weight
                            * (feed.KL_z + modified)
    IN [feed |-> feed,
        KL_y |-> feed.KL_y,
        KL_y_threshhold |-> threshhold,
        KL_y_modified |-> modified,
        KL |-> KL,
        ELBO |-> feed.ENRE - KL,
        ELBO_weighted |-> ELBO_weighted,
        total_loss |->
            ELBO_weighted - alpha(feed.clf_mask) * feed.CLF_ERROR]

NotRun == [feed |-> <<>>]

\* lines 1934-1951: the rows fed with the batches of the validation pass,
\* by the index of the validation example whose features they go with.
ValidationFeed ==
    [x |-> [k \in 1..cfg.M_valid |-> Row("validation", k)],
     labels |-> [k \in 1..cfg.M_valid |-> Row("training", k)],
     clf_mask |-> [k \in 1..cfg.M_valid |-> Row("training", k)]]

NoFeed == [x |-> <<>>, labels |-> <<>>, clf_mask |-> <<>>]

\* ------------------------------------------------------------- name
\* The name property raises NameError (reconstruction_part is not defined
\* where it is appended to) when proportion_of_free_KL_nats is non-zero.
NameRaises == cfg.proportion_of_free_KL_nats # 0

\* ------------------------------------------------------------- train: setup
\* A variant of AlreadyTrained (strict comparison), for sensitivity checks.
AlreadyTrainedMutant(epoch_start, number_of_epochs) == epoch_start > number_of_epochs

\* "Stop, if model is already trained"
AlreadyTrained(epoch_start, number_of_epochs) == epoch_start >= number_of_epochs

\* The validation metrics of an epoch besides the lower bound.
NoMetrics ==
    [ENRE_valid |-> 0, KL_z_valid |-> 0, KL_y_valid |-> 0, CLF_ERR_valid |-> 0]

Metrics ==
    [ENRE_valid : 0..MaxMetric, KL_z_valid : 0..MaxMetric,
     KL_y_valid : 0..MaxMetric, CLF_ERR_valid : 0..MaxMetric]

\* learning_curves["validation"], lines 1456-1462
NoCurves ==
    [lower_bound |-> <<>>, reconstruction_error |-> <<>>,
     kl_divergence_z |-> <<>>, kl_divergence_y |-> <<>>, clf_error |-> <<>>]

NoStatus == [completed |-> FALSE, message |-> "None", epochs_trained |-> <<>>]

\* What the last call of evaluate was asked for and what it returned.
NotEvaluated ==
    [type |-> "none", requested |-> 0, duplicates |-> FALSE,
     variant |-> "none", log_results |-> FALSE, result |-> <<>>,
     weights |-> {}]      \* the warm-up weights its passes were run with

IdleFrame ==
    [pc |-> "idle", outcome |-> "none", status |-> NoStatus,
     number_of_epochs |-> 0, temporary_log_directory |-> FALSE,
     replace_temporary_directory |-> FALSE,
     epoch_start |-> 0, epoch |-> 0, i |-> 0, global_step |-> 0,
     ELBO_valid |-> NegInf, ELBO_valid_maximum |-> NegInf,
     ELBO_valid_early_stopping |-> NegInf,
     epochs_with_no_improvement |-> 0, stopped_early |-> FALSE,
     validation |-> NoMetrics, learning_curves |-> NoCurves,
     evaluate |-> NotEvaluated, names |-> <<>>,
     mask_train |-> <<>>, ELBO_train |-> Weight(0, 1)]

NoHistory ==
    [permanent0 |-> NoDirectory,  \* permanent directory a staged call found
     found |-> 0,                 \* epoch of the checkpoint the session found
     files0 |-> {},               \* checkpoint files the session found
     restored |-> {},             \* the checkpoint the parameters came from
     optimizer_steps |-> 0, saves |-> 0, epochs_run |-> <<>>,
     warm_up_weight |-> Weight(0, 1), \* weight of the last optimizer step
     monitoring_weights |-> {},       \* weights of the monitoring passes
     nan_last |-> 0,       \* position of the last step if its loss was NaN
     stepped_after |-> 0,  \* position of a NaN step another step followed
     streak_len |-> 0,     \* epochs below the reference in a row
     streak_first |-> -1,  \* the first epoch of that streak, begun in this call
     pre_degradation |-> {}, \* the latest checkpoint when that epoch began
     alpha |-> 0,           \* the alpha of the last optimizer step
     loss |-> NotRun,       \* the tensors of the last run of the loss
     mask0 |-> <<>>,        \* mask_train when the call entered the loop
     q_y_entropies |-> <<>>, \* the entropies of the last training pass
     ELBO_i |-> <<>>,       \* the lower bounds of its batches
     fed |-> NoFeed]        \* the rows fed in the last validation pass

early_stopping_rounds == cfg.early_stopping_rounds

steps_per_epoch == (cfg.M_train + cfg.batch_size - 1) \div cfg.batch_size

InitWith(Ms, Bs, Vs, Fs, Rs) ==
    /\ cfg \in {c \in [M_train : Ms, batch_size : Bs, validation_set : Vs,
                       proportion_of_free_KL_nats : Fs,
                       early_stopping_rounds : Rs,
                       number_of_warm_up_epochs : {0},
                       number_of_labeled_examples : {0},
                       permutation : {Identity(M) : M \in Ms},
                       M_valid : Ms] :
                    /\ Len(c.permutation) = c.M_train
                    /\ c.M_valid = c.M_train}
    /\ permanent = NoDirectory
    /\ temporary = NoDirectory
    /\ saver = <<>>
    /\ m = IdleFrame
    /\ h = NoHistory

Init == InitWith({MaxExamples}, 1..MaxExamples, {FALSE}, {0, 8}, {MaxRounds})

InitValidation ==
    InitWith({MaxExamples}, {MaxExamples}, {TRUE}, {0, 8}, 1..MaxRounds)

\* train, lines 1163-1281: run setup, reset, the earlier checkpoints of the
\* permanent and the temporary directory, and the already-trained return.
TrainCall(number_of_epochs, temporary_log_directory, reset_training) ==
    /\ m.pc = "idle"
    /\ IF NameRaises
       THEN /\ m' = [IdleFrame EXCEPT !.outcome = "raised"]
            /\ h' = NoHistory
            /\ UNCHANGED <<permanent, temporary>>
       ELSE LET cleared == IF reset_training /\ permanent.exists
                           THEN clearLogDirectory(permanent) ELSE permanent
                old == get_checkpoint_state(cleared)
                temporary_epoch_start ==
                    IF temporary_log_directory
                    THEN get_checkpoint_state(temporary) ELSE 0
                ahead == temporary_log_directory /\ temporary_epoch_start > old
                epoch_start == IF ahead THEN temporary_epoch_start ELSE old
                frame == [IdleFrame EXCEPT
                            !.number_of_epochs = number_of_epochs,
                            !.temporary_log_directory = temporary_log_directory,
                            !.replace_temporary_directory =
                                temporary_log_directory /\ ~ahead,
                            !.epoch_start = epoch_start]
            IN  /\ permanent' = cleared
                /\ UNCHANGED temporary
                /\ h' = [NoHistory EXCEPT
                            !.permanent0 = IF temporary_log_directory
                                           THEN cleared ELSE NoDirectory]
                /\ IF AlreadyTrained(epoch_start, number_of_epochs)
                   THEN m' = [frame EXCEPT
                                !.outcome = "returned",
                                !.status = [completed |-> TRUE,
                                            message |-> "None",
                                            epochs_trained |->
                                              <<epoch_start, number_of_epochs>>]]
                   ELSE m' = [frame EXCEPT !.pc = "stage"]
    /\ UNCHANGED <<cfg, saver>>

\* The log directory the call works in (lines 1213-1255).
log_directory == IF m.temporary_log_directory THEN temporary ELSE permanent

\* Writes d as the new contents of the log directory of the call.
WriteLog(d) ==
    IF m.temporary_log_directory
    THEN temporary' = d /\ UNCHANGED permanent
    ELSE permanent' = d /\ UNCHANGED temporary

StageNeeded ==
    /\ m.temporary_log_directory
    /\ permanent.exists
    /\ m.replace_temporary_directory

\* train, lines 1285-1293: the stale temporary directory is removed.
Stage ==
    /\ m.pc = "stage"
    /\ temporary' = IF StageNeeded /\ temporary.exists
                    THEN NoDirectory ELSE temporary
    /\ m' = [m EXCEPT !.pc = "copy"]
    /\ UNCHANGED <<cfg, permanent, saver, h>>

\* train, line 1295: shutil.copytree(permanent_log_directory, log_directory).
Copy ==
    /\ m.pc = "copy"
    /\ temporary' = IF StageNeeded THEN permanent ELSE temporary
    /\ m' = [m EXCEPT !.pc = "session"]
    /\ UNCHANGED <<cfg, permanent, saver, h>>

\* ------------------------------------------------- early-stopping status
\* models.auxiliary.earlyStoppingStatus(losses, rounds): the counter of
\* epochs with no improvement on the value losses[-1 - counter] it returns
\* is the one train indexes the learning curve with (line 1503).
RECURSIVE ReplayStatus(_, _, _, _, _)
ReplayStatus(losses, k, reference, count, stopped) ==
    IF k > Len(losses) THEN <<stopped, count>>
    ELSE IF stopped THEN <<stopped, count>>
    ELSE IF losses[k] < reference
         THEN ReplayStatus(losses, k + 1, reference, count + 1,
                           count + 1 >= early_stopping_rounds)
         ELSE ReplayStatus(losses, k + 1, losses[k], 0, FALSE)

auxiliaryEarlyStoppingStatus(losses) ==
    ReplayStatus(losses, 1, NegInf, 0, FALSE)

\* self.earlyStoppingStatus(run_id), lines 1127-1155: it looks at the
\* directories under the model's base log directory, the permanent ones.
earlyStoppingStatus(perm) ==
    IF perm.exists /\ perm.early_stopping # NoSnapshot
    THEN auxiliaryEarlyStoppingStatus(perm.curve)
    ELSE <<FALSE, 0>>

\* numpy.nan, the counter once early stopping is in effect (line 2173).
nan == -1

Raised(frame) == [IdleFrame EXCEPT !.outcome = "raised", !.status = frame.status]

\* train, lines 1464-1530: the summary writers create the log directory;
\* the parameters are restored from the latest checkpoint of the log
\* directory or initialised, and the early-stopping state is set up.
RestoredFrame(d, perm, c) ==
    IF ~cfg.validation_set
    THEN [m EXCEPT !.epoch_start = c.epoch, !.global_step = c.global_step]
    ELSE LET status == earlyStoppingStatus(perm)
         IN [m EXCEPT
               !.epoch_start = c.epoch,
               !.global_step = c.global_step,
               !.ELBO_valid_maximum = SeqMax(d.curve),
               !.stopped_early = status[1],
               !.epochs_with_no_improvement = status[2],
               !.ELBO_valid_early_stopping = d.curve[Len(d.curve) - status[2]]]

RestoreFails(d, perm) ==
    \/ CheckpointFiles(d) = {}
    \/ /\ cfg.validation_set
       /\ \/ Len(d.curve) = 0
          \/ earlyStoppingStatus(perm)[2] >= Len(d.curve)

InitialisedFrame ==
    [m EXCEPT !.epoch_start = 0, !.global_step = 0,
              !.ELBO_valid_maximum = NegInf,
              !.ELBO_valid_early_stopping = NegInf,
              !.epochs_with_no_improvement = 0,
              !.stopped_early = FALSE]

EnterLoop(frame) ==
    [frame EXCEPT
       !.epoch = frame.epoch_start,
       !.i = 0,
       !.mask_train = InitialMask,
       !.status = [completed |-> FALSE, message |-> "None",
                   epochs_trained |->
                       <<frame.epoch_start, frame.number_of_epochs>>],
       !.pc = IF frame.epoch_start < frame.number_of_epochs
              THEN "batch" ELSE "cleanup"]


Session ==
    /\ m.pc = "session"
    /\ LET d == [log_directory EXCEPT !.exists = TRUE]
           perm == IF m.temporary_log_directory THEN permanent ELSE d
       IN /\ WriteLog(d)
          /\ IF get_checkpoint_state(d) # 0
             THEN IF RestoreFails(d, perm)
                  THEN m' = Raised(m) /\ h' = h
                  ELSE LET c == CHOOSE c \in CheckpointFiles(d) : TRUE
                           frame == RestoredFrame(d, perm, c)
                       IN /\ m' = EnterLoop(frame)
                          /\ h' = [h EXCEPT
                                     !.mask0 = InitialMask,
                                     !.restored = {c},
                                     !.found = d.state,
                                     !.files0 = d.files,
                                     !.streak_len =
                                        IF frame.stopped_early
                                        THEN early_stopping_rounds
                                        ELSE frame.epochs_with_no_improvement]
             ELSE /\ m' = EnterLoop(InitialisedFrame)
                  /\ h' = [h EXCEPT !.files0 = d.files,
                                     !.mask0 = InitialMask]
    /\ UNCHANGED <<cfg, saver>>

\* ------------------------------------------------------ the minibatch loop
\* numpy.round: to the nearest integer, halves to the even one.
Round(numerator, denominator) ==
    LET q == numerator \div denominator
        r == numerator % denominator
    IN IF 2 * r < denominator THEN q
       ELSE IF 2 * r > denominator THEN q + 1
       ELSE IF q % 2 = 0 THEN q ELSE q + 1

\* numpy.round(numpy.linspace(0, steps_per_epoch, 11)), line 1442
output_at_step ==
    {Round(k * steps_per_epoch, OutputPoints - 1) : k \in 0..(OutputPoints - 1)}

\* A variant of IsOutputStep (position counted from 0), for sensitivity checks.
IsOutputStepMutant(step, epoch) ==
    (step - steps_per_epoch * epoch) \in output_at_step

\* line 1617
IsOutputStep(step, epoch) == (step + 1 - steps_per_epoch * epoch) \in output_at_step

\* A variant of warm_up_weight (epochs counted from 1), for sensitivity
\* checks.
warm_up_weightMutant(epoch) ==
    IF cfg.number_of_warm_up_epochs # 0
    THEN IF epoch + 1 < cfg.number_of_warm_up_epochs
         THEN Weight(epoch + 1, cfg.number_of_warm_up_epochs)
         ELSE Weight(1, 1)
    ELSE Weight(1, 1)

\* train, lines 1560-1564: float(min(epoch / number_of_warm_up_epochs, 1.0))
\* if the number of warm-up epochs is not 0, and 1.0 if it is.
warm_up_weight(epoch) ==
    IF cfg.number_of_warm_up_epochs # 0
    THEN IF epoch < cfg.number_of_warm_up_epochs
         THEN Weight(epoch, cfg.number_of_warm_up_epochs)
         ELSE Weight(1, 1)
    ELSE Weight(1, 1)

\* A variant of train_op (the global step is left alone), for sensitivity
\* checks.
train_opMutant(global_step) == global_step

\* training, lines 1112-1113: apply_gradients(..., global_step =
\* self.global_step) adds 1 to the global step with each update.
train_op(global_step) == global_step + 1

\* train, lines 1568-1630: one optimizer step (train_op increments the
\* global step); the loss is looked at on the steps that print only.
Batch ==
    /\ m.pc = "batch"
    /\ \E isnan \in BOOLEAN :
         LET step == m.global_step
             ran == [m EXCEPT !.global_step = train_op(step)]
             position == step + 1 - steps_per_epoch * m.epoch
             batch_indices ==
                 (m.i + 1)..Min(m.i + cfg.batch_size, cfg.M_train)
             mask_batch ==
                 [k \in 1..Cardinality(batch_indices) |->
                     m.mask_train[m.i + k]]
             hist == [h EXCEPT
                        !.alpha = alpha(mask_batch),
                        !.optimizer_steps = @ + 1,
                        !.warm_up_weight = warm_up_weight(m.epoch),
                        !.stepped_after =
                            IF @ = 0 /\ h.nan_last # 0 THEN h.nan_last ELSE @,
                        !.nan_last = IF isnan THEN position ELSE 0]
         IN IF IsOutputStep(step, m.epoch) /\ isnan
            THEN /\ m' = [IdleFrame EXCEPT
                            !.outcome = "returned",
                            !.status = [m.status EXCEPT
                                          !.completed = FALSE,
                                          !.message = "loss became nan"],
                            !.epoch = m.epoch,
                            !.epoch_start = m.epoch_start,
                            !.number_of_epochs = m.number_of_epochs,
                            !.temporary_log_directory = m.temporary_log_directory]
                 /\ h' = hist
            ELSE /\ m' = IF m.i + cfg.batch_size < cfg.M_train
                         THEN [ran EXCEPT !.i = m.i + cfg.batch_size]
                         ELSE [ran EXCEPT !.pc = "monitor"]
                 /\ h' = hist
    /\ UNCHANGED <<cfg, permanent, temporary, saver>>

\* The validation learning curve is the sequence of the lower_bound
\* summaries ordered by their global_step (epoch + 1); a summary written
\* for an epoch that has one already takes its place.
AddSummary(curve, epoch, value) ==
    IF Len(curve) >= epoch
    THEN Append(SubSeq(curve, 1, epoch), value)
    ELSE Append(curve, value)

\* lines 2004-2012: the metrics of the epoch are appended to the validation
\* learning curves.
AppendedCurves(curves, ELBO_valid, metrics) ==
    [lower_bound |-> Append(curves.lower_bound, ELBO_valid),
     reconstruction_error |->
         Append(curves.reconstruction_error, metrics.ENRE_valid),
     kl_divergence_z |-> Append(curves.kl_divergence_z, metrics.KL_z_valid),
     kl_divergence_y |-> Append(curves.kl_divergence_y, metrics.KL_y_valid),
     clf_error |-> Append(curves.clf_error, metrics.KL_y_valid)]

\* train, lines 1644-2128: the passes over the training and the validation
\* set, both fed the warm-up weight 1.0 (lines 1697 and 1946); the
\* validation summaries are written and flushed.  The validation pass
\* yields the lower bound and the metrics of the epoch.
Monitor(metrics, pass) ==
    /\ m.pc = "monitor"
    /\ IF cfg.validation_set
       THEN \E v \in Values :
              /\ m' = [m EXCEPT
                         !.ELBO_train = Averaged(SeqSum(pass.ELBO_i),
                                            cfg.M_train, cfg.batch_size),
                         !.mask_train = Acquired(pass.q_y_entropies, @),
                         !.ELBO_valid = v,
                         !.validation = metrics,
                         !.learning_curves =
                             AppendedCurves(@, v, metrics),
                         !.pc = "early_stopping"]
              /\ WriteLog([log_directory EXCEPT
                             !.curve = AddSummary(@, m.epoch, v)])
       ELSE /\ m' = [m EXCEPT
                       !.ELBO_train = Averaged(SeqSum(pass.ELBO_i),
                                          cfg.M_train, cfg.batch_size),
                       !.mask_train = Acquired(pass.q_y_entropies, @),
                       !.pc = "early_stopping"]
            /\ UNCHANGED <<permanent, temporary>>
    /\ h' = [h EXCEPT !.monitoring_weights = @ \cup {Weight(1, 1)},
                      !.q_y_entropies = pass.q_y_entropies,
                      !.ELBO_i = pass.ELBO_i,
                      !.fed = IF cfg.validation_set
                              THEN ValidationFeed ELSE @]
    /\ UNCHANGED <<cfg, saver>>

\* ----------------------------------------------------------- early stopping
\* A variant of EarlyStoppingUpdate (the snapshot outlives the improvement),
\* for sensitivity checks.
EarlyStoppingUpdateMutant(ELBO_valid, reference, count, d) ==
    IF ELBO_valid < reference
    THEN [ELBO_valid_early_stopping |->
              IF count = 0 THEN ELBO_valid ELSE reference,
          epochs_with_no_improvement |-> count + 1,
          early_stopping |->
              IF count = 0
              THEN copyModelDirectory(d, d.early_stopping)
              ELSE d.early_stopping]
    ELSE [ELBO_valid_early_stopping |-> ELBO_valid,
          epochs_with_no_improvement |-> 0,
          early_stopping |-> d.early_stopping]

\* train, lines 2133-2165: the comparison with the early-stopping reference.
\* Returns the reference, the counter and the early_stopping directory.
EarlyStoppingUpdate(ELBO_valid, reference, count, d) ==
    IF ELBO_valid < reference
    THEN [ELBO_valid_early_stopping |->
              IF count = 0 THEN ELBO_valid ELSE reference,
          epochs_with_no_improvement |-> count + 1,
          early_stopping |->
              IF count = 0
              THEN copyModelDirectory(d, d.early_stopping)
              ELSE d.early_stopping]
    ELSE [ELBO_valid_early_stopping |-> ELBO_valid,
          epochs_with_no_improvement |-> 0,
          early_stopping |-> NoSnapshot]

\* lines 2167-2168
RoundsReached(count) == count >= early_stopping_rounds

\* train, lines 2130-2173
EarlyStopping ==
    /\ m.pc = "early_stopping"
    /\ LET below == m.ELBO_valid < m.ELBO_valid_early_stopping
       IN h' = IF cfg.validation_set /\ ~m.stopped_early
               THEN [h EXCEPT
                       !.streak_len = IF below THEN @ + 1 ELSE 0,
                       !.streak_first =
                           IF ~below THEN -1
                           ELSE IF h.streak_len = 0 THEN m.epoch ELSE @,
                       !.pre_degradation =
                           IF ~below THEN {}
                           ELSE IF h.streak_len = 0
                                THEN CheckpointFiles(log_directory) ELSE @]
               ELSE h
    /\ IF cfg.validation_set /\ ~m.stopped_early
       THEN LET d == log_directory
                u == EarlyStoppingUpdate(m.ELBO_valid,
                        m.ELBO_valid_early_stopping,
                        m.epochs_with_no_improvement, d)
                reached == RoundsReached(u.epochs_with_no_improvement)
            IN /\ WriteLog([d EXCEPT !.early_stopping = u.early_stopping])
               /\ m' = [m EXCEPT
                          !.ELBO_valid_early_stopping =
                              u.ELBO_valid_early_stopping,
                          !.epochs_with_no_improvement =
                              IF reached THEN nan
                              ELSE u.epochs_with_no_improvement,
                          !.stopped_early = reached,
                          !.pc = "save"]
       ELSE /\ m' = [m EXCEPT !.pc = "save"]
            /\ UNCHANGED <<permanent, temporary>>
    /\ UNCHANGED <<cfg, saver>>

\* --------------------------------------------------------------- the saver
Path(directory, epoch) == [directory |-> directory, epoch |-> epoch]

WithoutCheckpoint(d, epoch) ==
    [d EXCEPT !.files = {c \in @ : c.epoch # epoch}]

\* Saver._RecordLastCheckpoint: the path moves to the end of the list.
Recorded(last_checkpoints, path) ==
    Append(SelectSeq(last_checkpoints, LAMBDA p : p # path), path)

\* The paths the saver deletes after a save (more than max_to_keep recorded).
Dropped(recorded) ==
    IF Len(recorded) > max_to_keep THEN {Head(recorded)} ELSE {}

\* A variant of SavedEpoch (the epoch itself), for sensitivity checks.
SavedEpochMutant(epoch) == epoch

\* The epoch index a save at the end of epoch is recorded under.
SavedEpoch(epoch) == epoch + 1

\* self.saver.save(session, checkpoint_file, global_step = epoch + 1) on
\* directory d named name: the checkpoint is written, the state file names
\* it, and a checkpoint the saver dropped is deleted where it lies.
AfterSave(d, name, isLog, epoch, global_step, dropped) ==
    LET pruned == IF \E p \in dropped : p.directory = name
                  THEN WithoutCheckpoint(d,
                          (CHOOSE p \in dropped : TRUE).epoch)
                  ELSE d
    IN IF isLog
       THEN [pruned EXCEPT
               !.files = {c \in @ : c.epoch # SavedEpoch(epoch)} \cup
                         {[epoch |-> SavedEpoch(epoch),
                           global_step |-> global_step]},
               !.state = SavedEpoch(epoch)]
       ELSE pruned

\* train, lines 2175-2182
Save ==
    /\ m.pc = "save"
    /\ LET name == IF m.temporary_log_directory
                   THEN "temporary" ELSE "permanent"
           recorded == Recorded(saver, Path(name, SavedEpoch(m.epoch)))
           dropped == Dropped(recorded)
       IN /\ saver' = IF dropped = {} THEN recorded ELSE Tail(recorded)
          /\ permanent' = AfterSave(permanent, "permanent",
                              name = "permanent", m.epoch, m.global_step,
                              dropped)
          /\ temporary' = AfterSave(temporary, "temporary",
                              name = "temporary", m.epoch, m.global_step,
                              dropped)
    /\ m' = [m EXCEPT !.pc = "best"]
    /\ h' = [h EXCEPT !.saves = @ + 1]
    /\ UNCHANGED cfg

\* A variant of LoopContinues (the loop ends with early stopping), for
\* sensitivity checks.
LoopContinuesMutant(epoch, number_of_epochs, stopped_early) ==
    epoch < number_of_epochs /\ ~stopped_early

\* line 1538: for epoch in range(epoch_start, number_of_epochs)
LoopContinues(epoch, number_of_epochs, stopped_early) ==
    epoch < number_of_epochs

\* A variant of IsBest (ties count as better), for sensitivity checks.
IsBestMutant(ELBO_valid, ELBO_valid_maximum) ==
    ELBO_valid >= ELBO_valid_maximum

\* line 2185
IsBest(ELBO_valid, ELBO_valid_maximum) == ELBO_valid > ELBO_valid_maximum

\* lines 2190-2195: the current checkpoint is copied to the best directory
\* and the older checkpoints there are removed.
BestSnapshot(d) == removeOldCheckpoints(copyModelDirectory(d, d.best))

\* train, lines 2184-2281: the best-model snapshot and the end of the epoch.
Best ==
    /\ m.pc = "best"
    /\ LET better == cfg.validation_set
                     /\ IsBest(m.ELBO_valid, m.ELBO_valid_maximum)
           next == [m EXCEPT
                      !.ELBO_valid_maximum =
                          IF better THEN m.ELBO_valid ELSE @,
                      !.epoch = @ + 1,
                      !.i = 0,
                      !.pc = IF LoopContinues(m.epoch + 1, m.number_of_epochs,
                                              m.stopped_early)
                             THEN "batch" ELSE "cleanup"]
       IN /\ m' = next
          /\ IF better
             THEN WriteLog([log_directory EXCEPT
                              !.best = BestSnapshot(log_directory)])
             ELSE UNCHANGED <<permanent, temporary>>
    /\ h' = [h EXCEPT !.epochs_run = Append(@, m.epoch)]
    /\ UNCHANGED <<cfg, saver>>

\* train, line 2294: removeOldCheckpoints(log_directory)
CleanUp ==
    /\ m.pc = "cleanup"
    /\ WriteLog(removeOldCheckpoints(log_directory))
    /\ m' = [m EXCEPT !.pc = "remove"]
    /\ UNCHANGED <<cfg, saver, h>>

\* train, lines 2296-2302: shutil.rmtree(permanent_log_directory)
RemovePermanent ==
    /\ m.pc = "remove"
    /\ permanent' = IF m.temporary_log_directory /\ permanent.exists
                    THEN NoDirectory ELSE permanent
    /\ m' = [m EXCEPT !.pc = "move"]
    /\ UNCHANGED <<cfg, temporary, saver, h>>

\* train, lines 2304-2316: shutil.move(log_directory,
\* permanent_log_directory) and the return of the completed status.
Move ==
    /\ m.pc = "move"
    /\ IF m.temporary_log_directory
       THEN permanent' = temporary /\ temporary' = NoDirectory
       ELSE UNCHANGED <<permanent, temporary>>
    /\ m' = [IdleFrame EXCEPT
               !.outcome = "returned",
               !.status = [m.status EXCEPT !.completed = TRUE],
               !.epoch = m.epoch,
               !.epoch_start = m.epoch_start,
               !.number_of_epochs = m.number_of_epochs,
               !.temporary_log_directory = m.temporary_log_directory]
    /\ UNCHANGED <<cfg, saver, h>>

\* A later train call may come from a new process, with a new model object.
NewProcess ==
    /\ m.pc = "idle"
    /\ saver # <<>>
    /\ saver' = <<>>
    /\ UNCHANGED <<cfg, permanent, temporary, m, h>>

\* Process termination at any point of a train call: the frame, the model
\* object and its saver are lost, the disk stays as it is.
Kill ==
    /\ m.pc \notin {"idle", "evaluated"}
    /\ m' = [IdleFrame EXCEPT
               !.outcome = "killed",
               !.temporary_log_directory = m.temporary_log_directory]
    /\ saver' = <<>>
    /\ UNCHANGED <<cfg, permanent, temporary, h>>

\* ---------------------------------------------------------------- evaluate
Kinds == {"transformed", "reconstructed", "latent"}

\* The values of the argument output_versions: a string ("all" or one
\* kind) or a list of kinds.
OutputVersions ==
    {[type |-> "string", value |-> <<k>>] : k \in Kinds \cup {"all"}}
    \cup {[type |-> "list", value |-> l] :
             l \in UNION {[1..n -> Kinds] : n \in 0..MaxVersions}}

\* lines 2331-2334
NormalisedOutputVersions(output_versions) ==
    IF output_versions.type = "string" /\ output_versions.value[1] = "all"
    THEN <<"transformed", "reconstructed", "latent">>
    ELSE output_versions.value

\* line 2337
TooMany(number_of_output_versions) == number_of_output_versions > 3

\* A variant of Duplicates (one repetition goes unnoticed), for sensitivity
\* checks.
DuplicatesMutant(list) ==
    Len(list) > Cardinality({list[k] : k \in 1..Len(list)}) + 1

\* line 2340: number_of_output_versions != len(set(output_versions))
Duplicates(list) == Len(list) # Cardinality({list[k] : k \in 1..Len(list)})

\* lines 2335-2342: only a list is checked.
OutputVersionsRaise(output_versions) ==
    /\ output_versions.type = "list"
    /\ TooMany(Len(output_versions.value)) \/ Duplicates(output_versions.value)

\* logDirectory(run_id, early_stopping, best_model), lines 325-349: the
\* directory of the chosen checkpoint variant under the permanent one.
VariantDirectory(d, early_stopping, best_model) ==
    IF early_stopping THEN d.early_stopping
    ELSE IF best_model THEN d.best
    ELSE [files |-> d.files, state |-> d.state, evaluation |-> d.evaluation]

WithEvaluation(d, early_stopping, best_model, evaluation) ==
    IF early_stopping
    THEN [d EXCEPT !.exists = TRUE, !.early_stopping.evaluation = evaluation]
    ELSE IF best_model
         THEN [d EXCEPT !.exists = TRUE, !.best.evaluation = evaluation]
         ELSE [d EXCEPT !.exists = TRUE, !.evaluation = evaluation]

\* lines 2480-2481: return [None] * len(output_versions)
NoOutputs(output_versions) == [k \in 1..Len(output_versions) |-> "None"]

\* evaluate, lines 2318-2825.  The summary writer removes and creates the
\* evaluation/ subdirectory of the chosen variant (with the directories
\* above it); the restore reads the checkpoint into the session only.
\* has_labels is evaluation_set.has_labels: labels_eval and mask_eval are
\* bound for a labelled set only (lines 2385-2411) and read for every
\* batch (lines 2522-2533); every batch is fed the warm-up weight 1.0
\* (line 2528) and run without train_op (lines 2545-2556).
Evaluate(output_versions, use_early_stopping_model, use_best_model, log_results) ==
    /\ m.pc = "idle"
    /\ h' = NoHistory
    /\ LET list == NormalisedOutputVersions(output_versions)
           asked == [NotEvaluated EXCEPT
                       !.type = output_versions.type,
                       !.requested =
                           IF output_versions.value = <<"all">>
                           THEN Cardinality(Kinds)
                           ELSE Len(output_versions.value),
                       !.duplicates =
                           \E j, k \in 1..Len(output_versions.value) :
                               /\ j < k
                               /\ output_versions.value[j] =
                                      output_versions.value[k],
                       !.variant =
                           IF use_early_stopping_model /\ use_best_model
                           THEN "both"
                           ELSE IF use_early_stopping_model
                                THEN "early_stopping"
                                ELSE IF use_best_model THEN "best"
                                     ELSE "latest",
                       !.log_results = log_results]
           variant == VariantDirectory(permanent,
                          use_early_stopping_model, use_best_model)
           checkpoint == get_checkpoint_state(variant)
           ends(outcome, result) ==
               m' = [IdleFrame EXCEPT
                       !.pc = "evaluated",
                       !.outcome = outcome,
                       !.evaluate = [asked EXCEPT
                                       !.result = result,
                                       !.weights =
                                           IF outcome = "evaluated"
                                              /\ checkpoint # 0
                                           THEN {Weight(1, 1)} ELSE {}]]
           logs(evaluation) ==
               permanent' =
                   IF log_results
                   THEN WithEvaluation(permanent, use_early_stopping_model,
                            use_best_model, evaluation)
                   ELSE permanent
       IN IF OutputVersionsRaise(output_versions)
          THEN ends("ValueError", <<>>) /\ UNCHANGED permanent
          ELSE IF NameRaises
          THEN ends("NameError", <<>>) /\ UNCHANGED permanent
          ELSE IF use_early_stopping_model /\ use_best_model
          THEN ends("ValueError", <<>>) /\ UNCHANGED permanent
          ELSE IF checkpoint = 0
          THEN ends("evaluated", NoOutputs(list)) /\ logs(EmptyEvaluation)
          ELSE IF CheckpointFiles(variant) = {}
          THEN ends("NotFoundError", <<>>) /\ logs(EmptyEvaluation)
          ELSE \E has_labels \in BOOLEAN :
                 IF ~has_labels
                 THEN ends("NameError", <<>>) /\ logs(EmptyEvaluation)
                 ELSE ends("evaluated", list) /\ logs(checkpoint + 1)
    /\ UNCHANGED <<cfg, temporary, saver>>

\* The caller goes on after evaluate has returned or raised: the arguments
\* and the result of the call are dropped.
Continue ==
    /\ m.pc = "evaluated"
    /\ m' = IdleFrame
    /\ UNCHANGED <<cfg, permanent, temporary, saver, h>>

\* -------------------------------------------------------------- the name
\* Keep probabilities in tenths: 0.5 and 1.
Probabilities == {5, 10}

\* The attributes __init__ sets (lines 84-180) that name reads, with
\* epsilon, which it does not read; decimal values in tenths, epsilon by
\* its negative exponent.
DefaultConfiguration ==
    [type |-> "GMVAE",
     latent_distribution_name |-> "gaussian mixture",
     K |-> 1,
     prior_probabilities_method |-> "uniform",
     reconstruction_distribution_name |-> "poisson",
     k_max |-> 0,
     count_sum_feature |-> TRUE,
     latent_size |-> 1,
     hidden_sizes |-> <<1>>,
     number_of_monte_carlo_samples |-> 1,
     number_of_importance_samples |-> 1,
     analytical_kl_term |-> FALSE,
     batch_normalisation |-> TRUE,
     dropout_keep_probabilities |-> <<>>,
     kl_weight_value |-> 10,
     clf_weight_value |-> 10,
     number_of_labeled_examples |-> 0,
     number_of_warm_up_epochs |-> 0,
     proportion_of_free_KL_nats |-> 8,
     epsilon |-> 6,
     base_log_directory |-> "log"]

Configurations ==
    {[DefaultConfiguration EXCEPT
        !.latent_size = l,
        !.dropout_keep_probabilities = d,
        !.number_of_warm_up_epochs = w,
        !.proportion_of_free_KL_nats = f,
        !.epsilon = e] :
           l \in 1..MaxSize,
           d \in UNION {[1..n -> Probabilities] : n \in 0..MaxSize},
           w \in 0..1, f \in {0, 8}, e \in {6, 8}}

\* One part of the name: "tag_text" or "tag_n_n..."; the parts are joined
\* with "-".
Part(tag, text, numbers) == [tag |-> tag, text |-> text, numbers |-> numbers]

Optional(condition, part) == IF condition THEN <<part>> ELSE <<>>

\* lines 136-141: the probabilities that are neither 0 nor 1.
dropout_parts(c) ==
    SelectSeq(c.dropout_keep_probabilities, LAMBDA p : p # 0 /\ p # 10)

\* lines 258-264
latent_parts(c) ==
    <<Part("", c.latent_distribution_name, <<>>)>>
    \o Optional(c.latent_distribution_name = "gaussian mixture",
                Part("c", "", <<c.K>>))
    \o Optional(c.prior_probabilities_method # "uniform",
                Part("p", c.prior_probabilities_method, <<>>))

\* lines 268-310
reconstruction_parts(c) ==
    <<Part("", c.reconstruction_distribution_name, <<>>)>>
    \o Optional(c.k_max # 0, Part("k", "", <<c.k_max>>))
    \o Optional(c.count_sum_feature, Part("sum", "", <<>>))
    \o <<Part("l", "", <<c.latent_size>>),
         Part("h", "", c.hidden_sizes),
         Part("mc", "", <<c.number_of_monte_carlo_samples>>),
         Part("iw", "", <<c.number_of_importance_samples>>)>>
    \o Optional(c.analytical_kl_term, Part("kl", "", <<>>))
    \o Optional(c.batch_normalisation, Part("bn", "", <<>>))
    \o Optional(Len(dropout_parts(c)) > 0,
                Part("dropout", "", dropout_parts(c)))
    \o Optional(c.kl_weight_value # 10, Part("klw", "", <<c.kl_weight_value>>))
    \o Optional(c.clf_weight_value # 10,
                Part("clfw", "", <<c.clf_weight_value>>))
    \o Optional(c.number_of_labeled_examples > 0,
                Part("nl", "", <<c.number_of_labeled_examples>>))
    \o Optional(c.number_of_warm_up_epochs # 0,
                Part("wu", "", <<c.number_of_warm_up_epochs>>))

\* The name property, lines 253-323: with free nats configured it reads
\* reconstruction_part (lines 312-314) before that is bound (line 319).
name(c) ==
    IF c.proportion_of_free_KL_nats # 0
    THEN [raised |-> TRUE, path |-> <<>>]
    ELSE [raised |-> FALSE,
          path |-> <<<<Part("", c.type, <<>>)>>, latent_parts(c),
                     reconstruction_parts(c)>>]

\* logDirectory(), lines 325-349, for the run without identifier.
logDirectory(c) ==
    LET model_name == name(c)
    IN IF model_name.raised THEN model_name
       ELSE [model_name EXCEPT
               !.path = <<<<Part("", c.base_log_directory, <<>>)>>>> \o @]

\* Two models are constructed and asked for their log directories.
LogDirectories ==
    /\ m.pc = "idle"
    /\ m' = [IdleFrame EXCEPT
               !.pc = "named",
               !.names = <<logDirectory(cfg[1]), logDirectory(cfg[2])>>]
    /\ UNCHANGED <<cfg, permanent, temporary, saver, h>>

Steps ==
    \/ Stage
    \/ Copy
    \/ Session
    \/ Batch
    \/ Monitor(NoMetrics, NoPass)
    \/ EarlyStopping
    \/ Save
    \/ Best
    \/ CleanUp
    \/ RemovePermanent
    \/ Move
    \/ NewProcess
    \/ Kill

Next ==
    \/ \E N \in 1..MaxEpochs, tmp \in BOOLEAN, reset \in BOOLEAN :
          TrainCall(N, tmp, reset)
    \/ Steps

NextValidation ==
    \/ \E N \in 1..MaxEpochs, reset \in BOOLEAN : TrainCall(N, FALSE, reset)
    \/ Steps

NextSteps ==
    \/ \E N \in 1..MaxEpochs : TrainCall(N, FALSE, FALSE)
    \/ Steps

InitSteps == InitWith({ManyExamples}, {1}, {FALSE}, {0, 8}, {MaxRounds})

Spec == Init /\ [][Next]_vars

SpecSteps == InitSteps /\ [][NextSteps]_vars

SpecValidation == InitValidation /\ [][NextValidation]_vars

InitEvaluate ==
    InitWith({MaxExamples + 1}, {MaxExamples}, {TRUE}, {0, 8}, {1})

NextEvaluate ==
    \/ \E N \in 1..EvaluateEpochs : TrainCall(N, FALSE, FALSE)
    \/ Stage
    \/ Copy
    \/ Session
    \/ Batch
    \/ Monitor(NoMetrics, NoPass)
    \/ EarlyStopping
    \/ Save
    \/ Best
    \/ CleanUp
    \/ RemovePermanent
    \/ Move
    \/ \E output_versions \in OutputVersions,
          use_early_stopping_model \in BOOLEAN, use_best_model \in BOOLEAN,
          log_results \in BOOLEAN :
          Evaluate(output_versions, use_early_stopping_model,
                   use_best_model, log_results)
    \/ Continue

SpecEvaluate == InitEvaluate /\ [][NextEvaluate]_vars

InitPasses ==
    /\ cfg \in [M_train : {MaxExamples + 1}, batch_size : {MaxExamples},
                validation_set : {FALSE},
                proportion_of_free_KL_nats : {0, 8},
                early_stopping_rounds : {MaxRounds},
                number_of_warm_up_epochs : 0..MaxWarmUp,
                number_of_labeled_examples : {0},
                permutation : {Identity(MaxExamples + 1)},
                M_valid : {MaxExamples + 1}]
    /\ permanent = NoDirectory
    /\ temporary = NoDirectory
    /\ saver = <<>>
    /\ m = IdleFrame
    /\ h = NoHistory

NextPasses ==
    \/ \E N \in 1..MaxEpochs : TrainCall(N, FALSE, FALSE)
    \/ Steps
    \/ \E log_results \in BOOLEAN :
          Evaluate([type |-> "string", value |-> <<"all">>], FALSE, FALSE,
                   log_results)
    \/ Continue

SpecPasses == InitPasses /\ [][NextPasses]_vars

InitCurves == InitWith({1}, {1}, {TRUE}, {0, 8}, {1})

NextCurves ==
    \/ \E N \in 1..CurveEpochs : TrainCall(N, FALSE, FALSE)
    \/ Stage
    \/ Copy
    \/ Session
    \/ Batch
    \/ \E metrics \in Metrics : Monitor(metrics, NoPass)
    \/ EarlyStopping
    \/ Save
    \/ Best
    \/ CleanUp
    \/ RemovePermanent
    \/ Move

SpecCurves == InitCurves /\ [][NextCurves]_vars

\* Runs with a validation set that are staged in the temporary directory or
\* not, and end by themselves (completed, stopped on NaN, or raised).
InitStaged ==
    InitWith({MaxExamples}, {MaxExamples}, {TRUE}, {0, 8}, {MaxRounds})

NextStaged ==
    \/ \E N \in {MaxEpochs - 1, MaxEpochs + 1}, tmp \in BOOLEAN :
          TrainCall(N, tmp, FALSE)
    \/ Stage
    \/ Copy
    \/ Session
    \/ Batch
    \/ Monitor(NoMetrics, NoPass)
    \/ EarlyStopping
    \/ Save
    \/ Best
    \/ CleanUp
    \/ RemovePermanent
    \/ Move

SpecStaged == InitStaged /\ [][NextStaged]_vars

\* The passes over a labeled training set: the entropies of q(y|x) the
\* monitoring pass yields range over 0..MaxMetric per example.
InitLabels ==
    /\ cfg \in {c \in [M_train : 1..MaxExamples, batch_size : 1..MaxExamples,
                       validation_set : {FALSE},
                       proportion_of_free_KL_nats : {0},
                       early_stopping_rounds : {MaxRounds},
                       number_of_warm_up_epochs : {0},
                       number_of_labeled_examples : 0..(MaxExamples + 1),
                       permutation : [1..MaxExamples -> 1..MaxExamples]
                                     \cup [1..1 -> 1..1],
                       M_valid : 1..MaxExamples] :
                    /\ IsPermutation(c.permutation, c.M_train)
                    /\ c.M_valid = c.M_train}
    /\ permanent = NoDirectory
    /\ temporary = NoDirectory
    /\ saver = <<>>
    /\ m = IdleFrame
    /\ h = NoHistory

EntropyPasses ==
    [q_y_entropies : [1..cfg.M_train -> 0..MaxMetric],
     ELBO_i : {NoPass.ELBO_i}]

NextLabels ==
    \/ \E N \in 1..LabelEpochs : TrainCall(N, FALSE, FALSE)
    \/ Stage
    \/ Copy
    \/ Session
    \/ Batch
    \/ \E pass \in EntropyPasses : Monitor(NoMetrics, pass)
    \/ EarlyStopping
    \/ Save
    \/ Best
    \/ CleanUp
    \/ RemovePermanent
    \/ Move

SpecLabels == InitLabels /\ [][NextLabels]_vars

\* The averages of the monitoring pass: the lower bound of each batch
\* ranges over 0..MaxMetric, for sizes batch_size divides and does not.
InitAverages ==
    /\ cfg \in {c \in [M_train : 1..(MaxExamples + 1),
                       batch_size : 1..MaxExamples,
                       validation_set : {FALSE},
                       proportion_of_free_KL_nats : {0},
                       early_stopping_rounds : {MaxRounds},
                       number_of_warm_up_epochs : {0},
                       number_of_labeled_examples : {0},
                       permutation : {Identity(M) : M \in 1..(MaxExamples + 1)},
                       M_valid : 1..(MaxExamples + 1)] :
                    /\ Len(c.permutation) = c.M_train
                    /\ c.M_valid = c.M_train}
    /\ permanent = NoDirectory
    /\ temporary = NoDirectory
    /\ saver = <<>>
    /\ m = IdleFrame
    /\ h = NoHistory

ELBOPasses ==
    [q_y_entropies : {NoPass.q_y_entropies},
     ELBO_i : [1..NumberOfBatches(cfg.M_train, cfg.batch_size)
                  -> 0..MaxMetric]]

NextAverages ==
    \/ \E N \in 1..CurveEpochs : TrainCall(N, FALSE, FALSE)
    \/ Stage
    \/ Copy
    \/ Session
    \/ Batch
    \/ \E pass \in ELBOPasses : Monitor(NoMetrics, pass)
    \/ EarlyStopping
    \/ Save
    \/ Best
    \/ CleanUp
    \/ RemovePermanent
    \/ Move

SpecAverages == InitAverages /\ [][NextAverages]_vars

\* The tensors of the graph loss() builds at construction, for one feed.
RunLoss ==
    /\ m.pc = "idle"
    /\ \E feed \in Feeds : h' = [h EXCEPT !.loss = loss(feed)]
    /\ UNCHANGED <<cfg, permanent, temporary, saver, m>>

InitLoss == InitWith({1}, {1}, {FALSE}, {0, 8}, {1})

NextLoss == RunLoss

SpecLoss == InitLoss /\ [][NextLoss]_vars

InitName ==
    /\ cfg \in Configurations \X Configurations
    /\ permanent = NoDirectory
    /\ temporary = NoDirectory
    /\ saver = <<>>
    /\ m = IdleFrame
    /\ h = NoHistory

NextName == LogDirectories

SpecName == InitName /\ [][NextName]_vars

\* ================================================================ properties
\* A step that is a call of train (the name did not raise).
IsTrainCall == m.pc = "idle" /\ saver' = saver /\ m'.number_of_epochs >= 1

\* The epoch of the latest checkpoint a call finds: the permanent one (after
\* a reset cleared it), or the temporary one when that one is further along.
FoundEpoch ==
    IF m'.temporary_log_directory /\ temporary.state > permanent'.state
    THEN temporary.state ELSE permanent'.state

ReturnedCompleted ==
    m.pc = "idle" /\ m.outcome = "returned" /\ m.status.completed

ReturnedNaN ==
    m.pc = "idle" /\ m.outcome = "returned"
    /\ m.status.message = "loss became nan"

\* C1: a train call with number_of_epochs <= the epoch of the latest
\* checkpoint found returns at once with completed = True: it runs no
\* optimizer step, saves nothing and writes no checkpoint file.
C1_AlreadyTrainedReturns ==
    [][(IsTrainCall /\ m'.number_of_epochs <= FoundEpoch)
        => /\ m'.pc = "idle" /\ m'.outcome = "returned"
           /\ m'.status.completed
           /\ h'.optimizer_steps = 0 /\ h'.saves = 0
           /\ temporary' = temporary
           /\ permanent'.files \subseteq permanent.files
           /\ permanent' \in {permanent, NoDirectory}]_vars

\* C1 witness: train returned completed from a checkpoint of the temporary
\* directory that is further along than the permanent one.
C1_Witness ==
    /\ ReturnedCompleted
    /\ m.temporary_log_directory
    /\ m.number_of_epochs <= m.epoch_start
    /\ temporary.state = m.epoch_start
    /\ permanent.state < temporary.state
    /\ h.optimizer_steps = 0

\* C2 (as claimed): after a NaN abort in epoch e of a call that started at
\* epoch s, completed is False, the message is set and 'epochs trained'
\* is the partial range from s up to the failing epoch, not s-N.
C2_NaNStatusPartialRange ==
    ReturnedNaN =>
        /\ ~m.status.completed
        /\ m.status.epochs_trained[1] = m.epoch_start
        /\ m.status.epochs_trained[2] \in {m.epoch, m.epoch + 1}

\* C3 (as claimed): no optimizer step runs after a step whose loss was NaN.
C3_NoStepAfterNaN == h.stepped_after = 0

\* C3 (amended): no optimizer step runs after a step whose loss was NaN and
\* was looked at, i.e. whose position global_step + 1 - steps_per_epoch *
\* epoch is one of round(linspace(0, steps_per_epoch, 11)); train has then
\* returned the failure status.
C3_NoStepAfterMonitoredNaN ==
    /\ h.stepped_after \notin (output_at_step \ {0})
    /\ (h.nan_last \in (output_at_step \ {0})) => ReturnedNaN

\* C3 witness: a NaN loss at a monitored step, in the middle of an epoch of
\* more than ten steps, ended the call.
C3_Witness ==
    /\ ReturnedNaN
    /\ steps_per_epoch > 10
    /\ h.nan_last \in output_at_step
    /\ h.nan_last > 1 /\ h.nan_last < steps_per_epoch
    /\ h.optimizer_steps = h.nan_last + steps_per_epoch * (m.epoch - m.epoch_start)

\* C4 (as claimed): in a staged call that found a permanent run, the
\* permanent directory is as the call found it in every state before the
\* call returns completed, also after a NaN abort or a termination.
C4_PermanentUntouchedUntilSuccess ==
    (m.temporary_log_directory /\ h.permanent0.state # 0 /\ ~ReturnedCompleted)
        => permanent = h.permanent0

\* C5: a session that finds a checkpoint of epoch E restores the parameters
\* and the global step of that checkpoint and starts at epoch E; the epochs
\* run are E, E + 1, ... without gap or repetition, and a call that
\* completes has run N - E of them and leaves the latest checkpoint at N.
C5_EpochsInOrder ==
    /\ \A k \in 1..Len(h.epochs_run) : h.epochs_run[k] = h.found + k - 1
    /\ (m.pc \in {"batch", "monitor", "early_stopping", "save", "best"})
          => /\ m.epoch = h.found + Len(h.epochs_run)
             /\ m.epoch < m.number_of_epochs
    /\ (ReturnedCompleted /\ m.epoch_start < m.number_of_epochs)
          => /\ Len(h.epochs_run) = m.number_of_epochs - h.found
             /\ m.epoch_start = h.found
             /\ permanent.state = m.number_of_epochs
             /\ \E c \in permanent.files : c.epoch = m.number_of_epochs

C5_RestoreStep ==
    (m.pc = "session" /\ log_directory.state # 0
       /\ CheckpointFiles(log_directory) # {} /\ ~cfg.validation_set)
    => /\ m'.pc \in {"batch", "idle"}
       /\ m'.pc = "batch" =>
            /\ m'.epoch = log_directory.state
            /\ m'.epoch_start = log_directory.state
            /\ h'.restored = CheckpointFiles(log_directory)
            /\ \E c \in CheckpointFiles(log_directory) :
                   m'.global_step = c.global_step

C5_ResumeFromCheckpoint == [](C5_EpochsInOrder) /\ [][C5_RestoreStep]_vars

\* C5 witness: a call resumed from a checkpoint of an epoch E >= 1 and
\* completed after more than one further epoch.
C5_Witness ==
    /\ ReturnedCompleted
    /\ h.found >= 1
    /\ h.restored # {}
    /\ Len(h.epochs_run) >= 2
    /\ permanent.state = m.number_of_epochs

\* The iteration of the epoch loop has just ended (the step Best was taken).
EndOfEpoch ==
    /\ m.pc \in {"batch", "cleanup"}
    /\ m.i = 0
    /\ Len(h.epochs_run) >= 1
    /\ m.epoch = h.epochs_run[Len(h.epochs_run)] + 1

\* The number of epochs at the end of the curve whose validation ELBO is
\* below that of the epoch just before them (the pre-degradation epoch).
NotImproved(curve) ==
    Max({j \in 0..(Len(curve) - 1) :
            \A k \in (Len(curve) - j + 1)..Len(curve) :
                curve[k] < curve[Len(curve) - j]})

\* C6 (as claimed): in a run trained from scratch with a validation set,
\* once the last early_stopping_rounds epochs or more all have a validation
\* ELBO below that of the epoch before them (they did not improve on the
\* pre-degradation epoch), stopped_early is True and the early_stopping
\* directory holds a checkpoint.
C6_StopsAfterRounds ==
    (/\ cfg.validation_set
     /\ m.pc \in {"save", "best"}
     /\ h.found = 0
     /\ Len(permanent.curve) = m.epoch + 1
     /\ NotImproved(permanent.curve) >= early_stopping_rounds)
    => /\ m.stopped_early
       /\ permanent.early_stopping.state # 0

\* The early-stopping block in terms of its own reference: once
\* early_stopping_rounds epochs in a row were below ELBO_valid_early_stopping,
\* stopped_early is True; the early_stopping directory then holds the
\* checkpoint that was the latest one when the first of these epochs was
\* compared, and no later step of the call changes that directory.
StoppedEarlySnapshot ==
    /\ (m.pc \in {"save", "best"} /\ h.streak_len >= early_stopping_rounds)
          => m.stopped_early
    /\ (m.stopped_early /\ h.streak_first >= 0)
          => /\ h.streak_first >= 1
             /\ h.pre_degradation # {}
             /\ \A c \in h.pre_degradation : c.epoch = h.streak_first
             /\ permanent.early_stopping.state = h.streak_first
             /\ CheckpointFiles(permanent.early_stopping) = h.pre_degradation

SnapshotFrozen ==
    [][m.stopped_early
         => permanent'.early_stopping = permanent.early_stopping]_vars

\* C7: once stopped_early is True it stays True in every later state of the
\* call; the loop goes on to the next epoch while one remains below
\* number_of_epochs, and every epoch still saves the latest checkpoint.
C7_Step ==
    m.stopped_early =>
        /\ (m'.pc # "idle") => m'.stopped_early
        /\ (m.pc = "best" /\ m.epoch + 1 < m.number_of_epochs)
              => (m'.pc = "idle" \/ (m'.pc = "batch" /\ m'.epoch = m.epoch + 1))
        /\ (m.pc = "best" /\ m.epoch + 1 >= m.number_of_epochs)
              => m'.pc \in {"idle", "cleanup"}
        /\ (m.pc = "save" /\ m'.pc # "idle")
              => /\ permanent'.state = m.epoch + 1
                 /\ \E c \in permanent'.files : c.epoch = m.epoch + 1
                 /\ h'.saves = h.saves + 1

C7_LoopEnd ==
    (m.pc = "cleanup") =>
        /\ m.epoch = m.number_of_epochs
        /\ Len(h.epochs_run) = m.number_of_epochs - m.epoch_start
        /\ h.saves = Len(h.epochs_run)
        /\ \A k \in 1..Len(h.epochs_run) :
               h.epochs_run[k] = m.epoch_start + k - 1

C7_TrainingContinues == [](C7_LoopEnd) /\ [][C7_Step]_vars

\* C7 witness: the loop has ended at number_of_epochs with stopped_early
\* True, and early stopping took effect before the last epoch.
C7_Witness ==
    /\ m.pc = "cleanup"
    /\ m.stopped_early
    /\ h.streak_first >= 1
    /\ h.streak_first + early_stopping_rounds < m.number_of_epochs
    /\ h.saves = m.number_of_epochs - m.epoch_start

C8_Step ==
    m.stopped_early =>
        IF m.pc = "best" /\ m'.pc # "idle"
           /\ m.ELBO_valid > m.ELBO_valid_maximum
        THEN /\ permanent'.best.state = m.epoch + 1
             /\ permanent'.best.files = CheckpointFiles(permanent)
             /\ permanent'.best # permanent.best
             /\ m'.ELBO_valid_maximum = m.ELBO_valid
        ELSE permanent'.best = permanent.best

FirstMaximum(curve) ==
    CHOOSE k \in 1..Len(curve) :
        /\ curve[k] = SeqMax(curve)
        /\ \A j \in 1..(k - 1) : curve[j] < curve[k]

\* C9 (as claimed): at the end of every epoch of a call with a validation
\* set, the best directory holds one checkpoint, that of the first epoch
\* with the highest validation ELBO of the run's learning curve.
C9_BestIsHighestSoFar ==
    (cfg.validation_set /\ EndOfEpoch) =>
        /\ Len(permanent.curve) = m.epoch
        /\ permanent.best.state = FirstMaximum(permanent.curve)
        /\ Cardinality(permanent.best.files) = 1
        /\ \A c \in permanent.best.files : c.epoch = permanent.best.state

\* C10 (as claimed): at the end of every epoch e the state of the log
\* directory names the checkpoint that records e + 1, and that checkpoint
\* is the only one the log directory retains.
C10_OneLatestCheckpoint ==
    EndOfEpoch =>
        /\ log_directory.state = m.epoch
        /\ \E c \in log_directory.files : c.epoch = m.epoch
        /\ Cardinality(log_directory.files) = 1

\* The early-stopping state an uninterrupted call from scratch holds at the
\* end of the epochs whose validation ELBOs are curve[k..]: the updates of
\* lines 2131-2173 and 2185-2188 applied epoch by epoch.
RECURSIVE UninterruptedState(_, _, _)
UninterruptedState(curve, k, s) ==
    IF k > Len(curve) THEN s
    ELSE LET v == curve[k]
             u == EarlyStoppingUpdate(v, s.ELBO_valid_early_stopping,
                      s.epochs_with_no_improvement, NoDirectory)
             reached == RoundsReached(u.epochs_with_no_improvement)
             maximum == IF IsBest(v, s.ELBO_valid_maximum)
                        THEN v ELSE s.ELBO_valid_maximum
         IN UninterruptedState(curve, k + 1,
              IF s.stopped_early
              THEN [s EXCEPT !.ELBO_valid_maximum = maximum]
              ELSE [ELBO_valid_maximum |-> maximum,
                    stopped_early |-> reached,
                    epochs_with_no_improvement |->
                        IF reached THEN nan
                        ELSE u.epochs_with_no_improvement,
                    ELBO_valid_early_stopping |->
                        u.ELBO_valid_early_stopping])

\* The session has just restored a checkpoint of a run with a validation
\* set that was stopped at the end of an epoch.
ResumedAfterEpoch ==
    /\ cfg.validation_set
    /\ m.pc = "batch" /\ m.i = 0
    /\ m.epoch = m.epoch_start
    /\ h.found >= 1 /\ h.found = m.epoch_start
    /\ Len(permanent.curve) = h.found

\* C11 (as claimed): the early-stopping state a resumed call rebuilds
\* (maximum, stopped_early, counter, reference) is the state an
\* uninterrupted call holds at the end of the same epochs.
C11_ResumedStateIsUninterruptedState ==
    ResumedAfterEpoch =>
        LET s == UninterruptedState(permanent.curve, 1,
                     [ELBO_valid_maximum |-> NegInf,
                      stopped_early |-> FALSE,
                      epochs_with_no_improvement |-> 0,
                      ELBO_valid_early_stopping |-> NegInf])
        IN /\ m.ELBO_valid_maximum = s.ELBO_valid_maximum
           /\ m.stopped_early = s.stopped_early
           /\ m.epochs_with_no_improvement = s.epochs_with_no_improvement
           /\ m.ELBO_valid_early_stopping = s.ELBO_valid_early_stopping

\* ------------------------------------------------------------------ evaluate
IsEvaluateCall == m.pc = "idle" /\ m'.pc = "evaluated"

\* A list of more than three kinds, or one naming a kind twice.
BadOutputVersions(call) ==
    call.type = "list" /\ (call.requested > Cardinality(Kinds) \/ call.duplicates)

\* C12: evaluate called with a list of more than three output kinds, or
\* with a list naming a kind twice, raises ValueError and leaves every
\* directory, checkpoint and the saver as they were.
C12_Step ==
    IsEvaluateCall /\ BadOutputVersions(m'.evaluate)
    => /\ m'.outcome = "ValueError"
       /\ permanent' = permanent
       /\ temporary' = temporary
       /\ saver' = saver

C12_BadOutputVersionsRaise == [][C12_Step]_vars

\* A list with a repeated kind is refused for a trained run whose
\* evaluation directory exists and would have been replaced.
C12_Witness ==
    /\ m.pc = "evaluated"
    /\ m.outcome = "ValueError"
    /\ m.evaluate.duplicates
    /\ m.evaluate.requested <= Cardinality(Kinds)
    /\ m.evaluate.log_results
    /\ m.evaluate.variant = "latest"
    /\ permanent.state # 0
    /\ permanent.evaluation # NoEvaluation

\* The directory of the checkpoint variant a call names.
SelectedVariant(d, variant) ==
    IF variant = "early_stopping" THEN d.early_stopping
    ELSE IF variant = "best" THEN d.best
    ELSE [files |-> d.files, state |-> d.state, evaluation |-> d.evaluation]

\* An evaluate call with a valid request of output kinds for one variant
\* that holds no checkpoint.
EvaluatesUntrained ==
    /\ IsEvaluateCall
    /\ ~BadOutputVersions(m'.evaluate)
    /\ m'.evaluate.variant \in {"latest", "best", "early_stopping"}
    /\ get_checkpoint_state(SelectedVariant(permanent, m'.evaluate.variant)) = 0

NonePerKind(call) ==
    call.result = [k \in 1..call.requested |-> "None"]

\* C13 (as claimed): evaluate for a variant without a checkpoint raises
\* nothing and returns one None per requested output kind, whatever the
\* output kinds and log_results.
C13_Step ==
    EvaluatesUntrained
    => m'.outcome = "evaluated" /\ NonePerKind(m'.evaluate)

C13_UntrainedReturnsNones == [][C13_Step]_vars

\* Where the model name can be built (no free nats are configured), the
\* call does return one None per requested kind.
UntrainedReturnsNonesStep ==
    EvaluatesUntrained /\ ~NameRaises
    => m'.outcome = "evaluated" /\ NonePerKind(m'.evaluate)

UntrainedReturnsNonesWhenNamed == [][UntrainedReturnsNonesStep]_vars

\* The checkpoint files, the checkpoint state files and the learning curve
\* of a run.
Records(d) ==
    <<d.files, d.state, d.curve, d.best.files, d.best.state,
      d.early_stopping.files, d.early_stopping.state>>

\* Which of the directories of a run exist.
Directories(d) ==
    <<d.exists, d.best # NoSnapshot, d.early_stopping # NoSnapshot>>

\* The evaluation subdirectories of the variants a call does not name.
OtherEvaluations(d, variant) ==
    <<IF variant = "latest" THEN NoEvaluation ELSE d.evaluation,
      IF variant = "best" THEN NoEvaluation ELSE d.best.evaluation,
      IF variant = "early_stopping" THEN NoEvaluation
      ELSE d.early_stopping.evaluation>>

\* C14 (as claimed): evaluate leaves the checkpoints and the learning curve
\* alone; all it writes or removes lies inside the evaluation subdirectory
\* of the variant it was called for, and nothing at all without log_results.
C14_Step ==
    IsEvaluateCall
    => /\ temporary' = temporary
       /\ saver' = saver
       /\ Records(permanent') = Records(permanent)
       /\ Directories(permanent') = Directories(permanent)
       /\ OtherEvaluations(permanent', m'.evaluate.variant) =
              OtherEvaluations(permanent, m'.evaluate.variant)
       /\ ~m'.evaluate.log_results => permanent' = permanent

C14_WritesEvaluationOnly == [][C14_Step]_vars

\* What does hold: the checkpoints, the learning curve and the evaluation
\* subdirectories of the other variants stay, and nothing is written
\* without log_results.
RecordsKeptStep ==
    IsEvaluateCall
    => /\ temporary' = temporary
       /\ saver' = saver
       /\ Records(permanent') = Records(permanent)
       /\ OtherEvaluations(permanent', m'.evaluate.variant) =
              OtherEvaluations(permanent, m'.evaluate.variant)
       /\ ~m'.evaluate.log_results => permanent' = permanent

EvaluateKeepsRecords == [][RecordsKeptStep]_vars

\* ------------------------------------------------------------------ the name
Named == m.pc = "named"

\* C15 (as claimed): the log directory is a function of the configuration:
\* two models get the same log directory exactly if their configurations
\* are the same.
C15_NameIdentifiesConfiguration ==
    Named
    => /\ ~m.names[1].raised
       /\ ~m.names[2].raised
       /\ (m.names[1] = m.names[2]) <=> (cfg[1] = cfg[2])

\* What does hold: models with the same configuration get the same log
\* directory or both fail to build it, and the fields that make a part of
\* the name separate the directories.
SameConfigurationSameName ==
    Named /\ cfg[1] = cfg[2] => m.names[1] = m.names[2]

NamedFieldsSeparate ==
    /\ Named
    /\ ~m.names[1].raised
    /\ ~m.names[2].raised
    /\ \/ cfg[1].latent_size # cfg[2].latent_size
       \/ cfg[1].number_of_warm_up_epochs # cfg[2].number_of_warm_up_epochs
    => m.names[1] # m.names[2]

\* ------------------------------------------------------------ reset_training
\* A train call that cleared the log directory of the run: only a call
\* with reset_training does (lines 1185-1186).
ResetStep == IsTrainCall /\ permanent.exists /\ permanent' = NoDirectory

\* C16 (as claimed): a train call with reset_training discards the run and
\* starts from epoch 0, whatever checkpoints there were, those of a
\* temporary log directory included.
C16_Step == ResetStep => m'.epoch_start = 0

C16_ResetStartsFromEpochZero == [][C16_Step]_vars

\* What does hold: the call starts from epoch 0 unless the temporary log
\* directory it is given holds a checkpoint.
ResetStartsFreshStep ==
    /\ ResetStep
    /\ ~m'.temporary_log_directory \/ get_checkpoint_state(temporary) = 0
    => m'.epoch_start = 0

ResetStartsFreshWithoutTemporaryCheckpoint == [][ResetStartsFreshStep]_vars

\* ------------------------------------------------- early stopping cancelled
\* The early-stopping step of an epoch whose validation ELBO improved on
\* the reference while early stopping was not in effect.
ImprovedStep ==
    /\ m.pc = "early_stopping"
    /\ m'.pc = "save"
    /\ cfg.validation_set
    /\ ~m.stopped_early
    /\ m.ELBO_valid > m.ELBO_valid_early_stopping

\* C17: after the early-stopping step of an epoch with a validation set in
\* which early stopping is not in effect and the validation ELBO improved
\* on the reference, the counter of epochs with no improvement is 0, the
\* reference is the ELBO of the epoch and there is no early-stopping
\* snapshot.
C17_Step ==
    ImprovedStep
    => /\ m'.epochs_with_no_improvement = 0
       /\ m'.ELBO_valid_early_stopping = m.ELBO_valid
       /\ ~m'.stopped_early
       /\ permanent'.early_stopping = NoSnapshot

C17_ImprovementCancels == [][C17_Step]_vars

\* An improvement after a degraded epoch: the snapshot taken for the
\* degraded epoch is gone.
C17_Witness ==
    /\ m.pc = "save"
    /\ cfg.validation_set
    /\ ~m.stopped_early
    /\ h.found = 0
    /\ Len(permanent.curve) = 3
    /\ m.epoch = 2
    /\ permanent.curve[2] < permanent.curve[1]
    /\ permanent.curve[3] > permanent.curve[2]
    /\ m.epochs_with_no_improvement = 0
    /\ m.ELBO_valid_early_stopping = permanent.curve[3]
    /\ permanent.early_stopping = NoSnapshot

\* ------------------------------------------------------------ the global step
\* ceil(M_train / batch_size)
Minibatches ==
    CHOOSE n \in 1..cfg.M_train :
        n * cfg.batch_size >= cfg.M_train /\ (n - 1) * cfg.batch_size < cfg.M_train

\* The global step at each position of the loop: so many minibatches for
\* each full epoch and one step for each minibatch of the current one.
GlobalStepCounts ==
    /\ m.pc = "batch"
       => m.global_step = m.epoch * Minibatches + m.i \div cfg.batch_size
    /\ m.pc \in {"monitor", "early_stopping", "save", "best"}
       => m.global_step = (m.epoch + 1) * Minibatches
    /\ m.pc \in {"cleanup", "remove", "move"}
       => m.global_step = m.epoch * Minibatches

SavedGlobalSteps(d) ==
    <<d.files, d.best.files, d.early_stopping.files>>

C18_Step ==
    /\ m.pc = "batch" /\ m'.pc \in {"batch", "monitor"}
       => m'.global_step = m.global_step + 1
    /\ m.pc \in {"monitor", "early_stopping", "save", "best"}
         /\ m'.pc \notin {"idle", "evaluated"}
       => /\ m'.global_step = m.global_step
          /\ h'.optimizer_steps = h.optimizer_steps
    /\ IsEvaluateCall
       => /\ SavedGlobalSteps(permanent') = SavedGlobalSteps(permanent)
          /\ SavedGlobalSteps(temporary') = SavedGlobalSteps(temporary)

\* C18: each optimizer step of train adds 1 to the global step; the
\* monitoring passes and the rest of the epoch leave it and the number of
\* parameter updates as they are, evaluate leaves the global step of every
\* checkpoint as it is, and after e full epochs the global step is
\* e * ceil(M_train / batch_size).
C18_GlobalStep == [](GlobalStepCounts) /\ [][C18_Step]_vars

\* A run trained for two epochs of two minibatches, the second one smaller,
\* has been evaluated: its checkpoint holds the global step
\* 2 * ceil(M_train / batch_size).
C18_Witness ==
    /\ m.pc = "evaluated"
    /\ m.outcome = "evaluated"
    /\ m.evaluate.log_results
    /\ Minibatches > 1
    /\ cfg.M_train % cfg.batch_size # 0
    /\ permanent.state = 2
    /\ \E c \in CheckpointFiles(permanent) :
          c.global_step = 2 * Minibatches

\* ---------------------------------------------------------- the warm-up weight
\* min(e / W, 1) for W > 0 and 1 for W = 0, as a comparison of fractions.
IsWarmUpWeight(weight, e, W) ==
    IF W > 0
    THEN IF e >= W
         THEN weight.n = weight.d
         ELSE weight.n * W = e * weight.d
    ELSE weight.n = weight.d

InUnitInterval(weight) == weight.d > 0 /\ 0 <= weight.n /\ weight.n <= weight.d

NotAbove(a, b) == a.n * b.d <= b.n * a.d

IsOptimizerStep == m.pc = "batch" /\ h'.optimizer_steps = h.optimizer_steps + 1

C19_Step ==
    /\ IsOptimizerStep
       => /\ IsWarmUpWeight(h'.warm_up_weight, m.epoch,
                            cfg.number_of_warm_up_epochs)
          /\ InUnitInterval(h'.warm_up_weight)
          /\ NotAbove(h.warm_up_weight, h'.warm_up_weight)
    /\ m.pc = "monitor" /\ m'.pc = "early_stopping"
       => h'.monitoring_weights = {Weight(1, 1)}
    /\ IsEvaluateCall
       => m'.evaluate.weights \subseteq {Weight(1, 1)}

\* C19: every optimizer step of epoch e is fed the warm-up weight
\* min(e / W, 1) for W > 0 warm-up epochs and 1 for W = 0, in fresh and in
\* resumed calls; the weight lies in [0, 1] and never decreases from one
\* optimizer step to the next; the monitoring passes of train and the
\* passes of evaluate are fed the weight 1.
C19_WarmUpWeight == [][C19_Step]_vars

\* A resumed call has run an optimizer step with a weight strictly between
\* 0 and 1 and a monitoring pass with weight 1.
C19_Witness ==
    /\ m.pc = "early_stopping"
    /\ h.found >= 1
    /\ 0 < h.warm_up_weight.n
    /\ h.warm_up_weight.n < h.warm_up_weight.d
    /\ h.monitoring_weights = {Weight(1, 1)}

\* ------------------------------------------------------- the learning curves
\* The validation pass of an epoch.
ValidatedStep ==
    m.pc = "monitor" /\ m'.pc = "early_stopping" /\ cfg.validation_set

Gained(series, value) ==
    m'.learning_curves[series] = Append(m.learning_curves[series], value)

\* C20 (as claimed): with each epoch of a run with a validation set every
\* validation learning curve gains one entry, the value of the metric it
\* is named after: the lower bound, the reconstruction error, the two KL
\* divergences and the classification error.
C20_Step ==
    ValidatedStep
    => /\ Gained("lower_bound", m'.ELBO_valid)
       /\ Gained("reconstruction_error", m'.validation.ENRE_valid)
       /\ Gained("kl_divergence_z", m'.validation.KL_z_valid)
       /\ Gained("kl_divergence_y", m'.validation.KL_y_valid)
       /\ Gained("clf_error", m'.validation.CLF_ERR_valid)

C20_CurvesFollowMetrics == [][C20_Step]_vars

\* What does hold: the four other curves gain the value of their metric,
\* and the classification-error curve gains one entry.
FourCurvesStep ==
    ValidatedStep
    => /\ Gained("lower_bound", m'.ELBO_valid)
       /\ Gained("reconstruction_error", m'.validation.ENRE_valid)
       /\ Gained("kl_divergence_z", m'.validation.KL_z_valid)
       /\ Gained("kl_divergence_y", m'.validation.KL_y_valid)
       /\ Len(m'.learning_curves.clf_error) =
              Len(m.learning_curves.clf_error) + 1

FourCurvesFollowMetrics == [][FourCurvesStep]_vars

\* The parts of a built log directory path, whatever their place.
PartsOf(built) ==
    UNION {{built.path[j][k] : k \in 1..Len(built.path[j])} :
               j \in 1..Len(built.path)}

HasFreeNatsPart(built) == \E part \in PartsOf(built) : part.tag = "fn"

\* C30 (as claimed): logDirectory returns a path for every configuration,
\* and a configured proportion of free nats makes an fn part of the name.
C30_LogDirectoryNeverRaises ==
    Named
    => \A j \in 1..2 :
          /\ ~m.names[j].raised
          /\ cfg[j].proportion_of_free_KL_nats # 0
             => HasFreeNatsPart(m.names[j])

\* What does hold: the path is built exactly for the configurations
\* without free nats, and no path has an fn part.
LogDirectoryRaisesWithFreeNats ==
    Named
    => \A j \in 1..2 :
          /\ m.names[j].raised <=> cfg[j].proportion_of_free_KL_nats # 0
          /\ ~m.names[j].raised => ~HasFreeNatsPart(m.names[j])

\* ------------------------------------------------- the completed status
\* C24 (as claimed): when train has returned a completed status for
\* number_of_epochs epochs, the permanent log directory holds a latest
\* checkpoint of that epoch or a later one, with or without a temporary
\* log directory.
C24_CompletedIsPersisted ==
    ReturnedCompleted
    => /\ get_checkpoint_state(permanent) >= m.number_of_epochs
       /\ CheckpointFiles(permanent) # {}

\* What does hold: a call that worked in the permanent directory, or ran
\* at least one epoch in the temporary one, and returned completed leaves
\* the permanent state file naming such an epoch.
CompletedRunIsRecorded ==
    /\ ReturnedCompleted
    /\ ~m.temporary_log_directory \/ Len(h.epochs_run) > 0
    => get_checkpoint_state(permanent) >= m.number_of_epochs

\* ------------------------------------------------ the early-stopping reference
\* The early-stopping step of an epoch while a snapshot taken in this call
\* exists: the snapshot holds the checkpoint saved before epoch
\* h.streak_first, whose validation ELBO is the entry of that index of the
\* learning curve.
SnapshotStep ==
    /\ m.pc = "early_stopping"
    /\ m'.pc = "save"
    /\ cfg.validation_set
    /\ ~m.stopped_early
    /\ m.epochs_with_no_improvement > 0
    /\ h.streak_first >= 1
    /\ h.streak_first <= Len(permanent.curve)

PreDegradationELBO == permanent.curve[h.streak_first]

\* C25 (as claimed): while a snapshot exists, an epoch whose validation
\* ELBO stays below that of the pre-degradation epoch does not reset the
\* counter and does not discard the snapshot.
C25_Step ==
    SnapshotStep /\ m.ELBO_valid < PreDegradationELBO
    => /\ m'.epochs_with_no_improvement # 0
       /\ permanent'.early_stopping # NoSnapshot

C25_CancelledByRecoveryOnly == [][C25_Step]_vars

\* What does hold: the same with the ELBO of the first degraded epoch, the
\* value line 2141 makes the reference.
BelowDegradedStep ==
    /\ SnapshotStep
    /\ h.streak_first < Len(permanent.curve)
    /\ m.ELBO_valid < permanent.curve[h.streak_first + 1]
    => /\ m'.epochs_with_no_improvement # 0
       /\ permanent'.early_stopping # NoSnapshot

CancelledAtDegradedValue == [][BelowDegradedStep]_vars

\* ------------------------------------------------------- the NaN abort
\* The epoch a later call of train on the run starts from (lines 1201-1239,
\* as TrainCall computes it), with or without the temporary directory.
ResumeEpoch(temporary_log_directory) ==
    LET old == get_checkpoint_state(permanent)
        new == get_checkpoint_state(temporary)
    IN IF temporary_log_directory /\ new > old THEN new ELSE old

\* C28 (as claimed): when train has aborted on a NaN loss during epoch e,
\* the latest checkpoint of the run records epoch e, and a later call of
\* train on the run resumes from epoch e.
C28_NaNAbortResumesFromEpoch ==
    ReturnedNaN
    => /\ get_checkpoint_state(permanent) = m.epoch
       /\ \A temporary_log_directory \in BOOLEAN :
              ResumeEpoch(temporary_log_directory) = m.epoch

\* What does hold: the directory the call worked in records epoch e, and a
\* later call that works in the same directory resumes from it.
NaNAbortKeepsWorkingDirectory ==
    ReturnedNaN
    => /\ get_checkpoint_state(log_directory) = m.epoch
       /\ ResumeEpoch(m.temporary_log_directory) = m.epoch

\* The aborting step itself writes nothing: checkpoints, snapshots and
\* learning curves of both directories are those of the end of the last
\* completed epoch.
NaNAbortStep ==
    m.pc = "batch" /\ ReturnedNaN'
    => /\ permanent' = permanent
       /\ temporary' = temporary
       /\ get_checkpoint_state(log_directory) = m.epoch

NaNAbortWritesNothing == [][NaNAbortStep]_vars

\* ------------------------------------------- the early-stopping snapshot
SnapshotExists == log_directory.early_stopping # NoSnapshot

\* C29 (as claimed): at the end of every epoch of a run with a validation
\* set, the early-stopping snapshot exists exactly if the counter of epochs
\* with no improvement is positive or stopped_early is set, and the counter
\* is at most early_stopping_rounds.
C29_SnapshotIffCounting ==
    EndOfEpoch /\ cfg.validation_set
    => /\ SnapshotExists <=>
              (m.epochs_with_no_improvement > 0 \/ m.stopped_early)
       /\ m.epochs_with_no_improvement <= early_stopping_rounds

\* What does hold: the same for the calls that work in the permanent
\* directory of the run, the one earlyStoppingStatus reads.
SnapshotIffCountingInPlace ==
    EndOfEpoch /\ cfg.validation_set /\ ~m.temporary_log_directory
    => /\ permanent.early_stopping # NoSnapshot <=>
              (m.epochs_with_no_improvement > 0 \/ m.stopped_early)
       /\ m.epochs_with_no_improvement <= early_stopping_rounds

\* ------------------------------------------------ the averages of a pass
\* The monitoring pass over the training set has just run.
Monitored == m.pc = "early_stopping" /\ Len(h.ELBO_i) > 0

\* C21 (as claimed): the lower bound recorded for the epoch is the
\* arithmetic mean of the lower bounds of the batches of the pass, whether
\* batch_size divides the number of examples or not.
C21_AverageIsMeanOverBatches ==
    Monitored
    => m.ELBO_train.n * Len(h.ELBO_i) = SeqSum(h.ELBO_i) * m.ELBO_train.d

\* What does hold: the recorded value is the sum over the batches times
\* batch_size / M, which is the mean when batch_size divides M.
AverageIsSumOverRatio ==
    Monitored
    => /\ m.ELBO_train.n * cfg.M_train
              = SeqSum(h.ELBO_i) * cfg.batch_size * m.ELBO_train.d
       /\ cfg.M_train % cfg.batch_size = 0
          => m.ELBO_train.n * Len(h.ELBO_i)
                 = SeqSum(h.ELBO_i) * m.ELBO_train.d

\* ------------------------------------------------ label acquisition
Unlabeled(mask) == {k \in DOMAIN mask : mask[k] = 0}

Labeled(mask) == {k \in DOMAIN mask : mask[k] = 1}

\* The end of the monitoring pass of an epoch, where a label is acquired.
AcquisitionStep == m.pc = "monitor" /\ m'.pc = "early_stopping"

\* The number of epochs of the call that have reached their acquisition.
Acquisitions == m.epoch - m.epoch_start + 1

\* C22: at the end of each epoch one unlabeled example, one of the highest
\* entropy among the unlabeled ones, gets its mask set to 1 while there is
\* one; no step of the call sets a mask entry back to 0; after e epochs of
\* the call min(M_train, L0 + e) examples are labeled, L0 being the number
\* labeled when the call entered the loop.
C22_Step ==
    /\ (DOMAIN m.mask_train = DOMAIN m'.mask_train)
       => Labeled(m.mask_train) \subseteq Labeled(m'.mask_train)
    /\ (m.pc # "monitor" /\ m'.pc \notin {"idle", "batch"})
       => m'.mask_train = m.mask_train
    /\ AcquisitionStep
       => /\ Unlabeled(m.mask_train) # {}
             => \E k \in Unlabeled(m.mask_train) :
                  /\ m'.mask_train = [m.mask_train EXCEPT ![k] = 1]
                  /\ \A j \in Unlabeled(m.mask_train) :
                        h'.q_y_entropies[j] <= h'.q_y_entropies[k]
          /\ Unlabeled(m.mask_train) = {} => m'.mask_train = m.mask_train
          /\ Cardinality(Labeled(h.mask0))
                = Min(cfg.number_of_labeled_examples, cfg.M_train)
          /\ Cardinality(Labeled(m'.mask_train))
                = Min(cfg.M_train,
                      Cardinality(Labeled(h.mask0)) + Acquisitions)

C26_StaysUnsupervised ==
    cfg.number_of_labeled_examples = 0
    => /\ h.alpha = 0
       /\ m.pc = "batch" => Labeled(m.mask_train) = {}

\* What does hold: the same in the first epoch of a call.
FirstEpochIsUnsupervised ==
    /\ cfg.number_of_labeled_examples = 0
    /\ m.pc \in {"batch", "monitor"}
    /\ m.epoch = m.epoch_start
    => /\ h.alpha = 0
       /\ Labeled(m.mask_train) = {}

\* ------------------------------------------------ the validation feed
ValidationPassRan == Len(h.fed.x) > 0

\* C27 (as claimed): the label rows and the mask entries fed with a batch
\* of the validation pass belong to the validation examples whose feature
\* rows are fed.
C27_ValidationRowsAgree ==
    ValidationPassRan
    => \A k \in DOMAIN h.fed.x :
          /\ h.fed.labels[k] = h.fed.x[k]
          /\ h.fed.clf_mask[k] = h.fed.x[k]

\* What does hold: they are the rows of the training examples of the same
\* index.
ValidationRowsAreTrainingRows ==
    ValidationPassRan
    => \A k \in DOMAIN h.fed.x :
          /\ h.fed.x[k] = Row("validation", k)
          /\ h.fed.labels[k] = Row("training", k)
          /\ h.fed.clf_mask[k] = Row("training", k)

\* ------------------------------------------------ the free nats
LossRan == h.loss # NotRun

FreeNats == cfg.proportion_of_free_KL_nats # 0

\* The KL_y term of the weighted objective, recovered from its value.
PenaltyOfKL_y ==
    IF h.loss.feed.warm_up_weight = 0 THEN h.loss.KL_y_modified
    ELSE (h.loss.feed.ENRE - h.loss.ELBO_weighted) - h.loss.feed.KL_z

\* C23 (as claimed): the KL_y term of the weighted objective is the excess
\* of KL_y above proportion_of_free_KL_nats * H[p(y)], nothing at or below
\* it; the monitored lower bound has the unclipped KL_y.
C23_PenaltyIsExcess ==
    LossRan /\ FreeNats
    => /\ PenaltyOfKL_y =
              IF h.loss.KL_y > h.loss.KL_y_threshhold
              THEN h.loss.KL_y - h.loss.KL_y_threshhold ELSE 0
       /\ h.loss.ELBO = h.loss.feed.ENRE - h.loss.feed.KL_z - h.loss.KL_y

\* C23 (amended): the KL_y term of the weighted objective is the larger of
\* KL_y and the threshold: KL_y itself above the threshold, the constant
\* threshold at or below it, and KL_y when proportion_of_free_KL_nats is 0;
\* the monitored lower bound has the unclipped KL_y.
C23_PenaltyIsLarger ==
    LossRan
    => /\ FreeNats
          => PenaltyOfKL_y = Max({h.loss.KL_y, h.loss.KL_y_threshhold})
       /\ ~FreeNats => PenaltyOfKL_y = h.loss.KL_y
       /\ h.loss.KL_y_threshhold
              = cfg.proportion_of_free_KL_nats * h.loss.feed.p_y_entropy
       /\ h.loss.ELBO = h.loss.feed.ENRE - h.loss.feed.KL_z - h.loss.KL_y

\* KL_y below a positive threshold, in a feed with the full warm-up weight.
C23_Witness ==
    /\ LossRan /\ FreeNats
    /\ h.loss.feed.warm_up_weight = 1
    /\ 0 < h.loss.KL_y
    /\ h.loss.KL_y < h.loss.KL_y_threshhold
    /\ PenaltyOfKL_y = h.loss.KL_y_threshhold
====
